---- MODULE Spec2Model ----
(***************************************************************************)
(* migi: the catalog model (src/dbinfo), the name resolver and statement   *)
(* dispatch of the Inspector (src/inspector) and the hierarchical          *)
(* migration-diff engine (src/migrate).                                    *)
(*                                                                         *)
(* HashMap<String, V> is a function from a finite set of keys to values.   *)
(* Option<T> is a set with at most one element ({} is None, {v} is Some).  *)
(* A HashSet iterator yields its elements in an order the hasher's random  *)
(* seed decides: every iteration over one is a choice among its orders.    *)
(***************************************************************************)
EXTENDS Integers, Sequences, FiniteSets, TLC

\* ------------------------------------------------------------------ bounds

\* Longest column list of a table in the column-level universe.
MaxColumns == 3

\* Most tables a snapshot of the hierarchy universe holds.
MaxTables == 2

\* Number of add_catalog / add_table calls made on one Dbinfo.
MaxCalls == 3

\* Longest object name handed to inspect_table_name.
MaxParts == 4

\* ---------------------------------------------------------------- universe

CatalogNames == {"db", "aux"}

SchemaNames == {"public", "reporting"}

TableNames == {"events", "users"}

ColumnNames == {"a", "b", "c", "x"}

Dialects == {"PostgreSql", "MySql", "SQLite"}

Max(m, n) == IF m >= n THEN m ELSE n

Min(m, n) == IF m <= n THEN m ELSE n

\* Sequences over S of length at most n.
SeqsUpTo(S, n) == UNION {[1..k -> S] : k \in 0..n}

\* The orders in which an iterator over the hash set S can yield its elements.
Orders(S) == {q \in [1..Cardinality(S) -> S] : \A i, j \in DOMAIN q : i # j => q[i] # q[j]}

\* ------------------------------------------------------------- data model

\* struct Column: the name and the data type; collation and options are opaque
\* values compared as a whole and are folded into data_type.
Column(name, data_type) == [name |-> name, data_type |-> data_type]

\* struct Table: name, ordered columns, and one representative (strict) of the
\* opaque comparison-relevant attributes.
Table(name, columns, strict) == [name |-> name, columns |-> columns, strict |-> strict]

\* struct Schema
Schema(name, tables) == [name |-> name, tables |-> tables]

\* struct Catalog
Catalog(name, default_schema, schemas) ==
    [name |-> name, default_schema |-> default_schema, schemas |-> schemas]

\* struct Dbinfo
Dbinfo(dialect, default_catalog, catalogs) ==
    [dialect |-> dialect, default_catalog |-> default_catalog, catalogs |-> catalogs]

\* struct TableName: catalog and schema are Option<Ident>.
TableName(catalog, schema, table) == [catalog |-> catalog, schema |-> schema, table |-> table]

\* Mutant of Insert: an entry already stored under the key is kept.
Insert_KeepFirst(map, k, v) ==
    [x \in (DOMAIN map) \cup {k} |-> IF x \in DOMAIN map THEN map[x] ELSE v]

\* HashMap::insert(k, v): insert or replace.
Insert(map, k, v) == [x \in (DOMAIN map) \cup {k} |-> IF x = k THEN v ELSE map[x]]

EmptyMap == [x \in {} |-> {}]

\* ----------------------------------------------------- column alignment

\* diff::Result::{Left, Both, Right} over column names.
Left(n) == [tag |-> "Left", name |-> n]

Both(n) == [tag |-> "Both", name |-> n]

Right(n) == [tag |-> "Right", name |-> n]

\* Number of leading positions at which x and y agree.
RECURSIVE CommonPrefix(_, _, _)
CommonPrefix(x, y, k) ==
    IF k < Len(x) /\ k < Len(y) /\ x[k + 1] = y[k + 1] THEN CommonPrefix(x, y, k + 1) ELSE k

\* Number of trailing positions at which x and y agree, at most limit.
RECURSIVE CommonSuffix(_, _, _, _)
CommonSuffix(x, y, limit, k) ==
    IF k < limit /\ x[Len(x) - k] = y[Len(y) - k] THEN CommonSuffix(x, y, limit, k + 1) ELSE k

\* One row of the longest-common-subsequence table: row[j + 1] is the LCS
\* length of the first i elements of x (xe the i-th) and the first j of y.
RECURSIVE LcsRow(_, _, _, _, _)
LcsRow(above, xe, y, j, acc) ==
    IF j > Len(y) THEN acc
    ELSE LcsRow(above, xe, y, j + 1,
                Append(acc, IF xe = y[j] THEN above[j] + 1 ELSE Max(above[j + 1], acc[j])))

\* The table, row i + 1 for the first i elements of x.
RECURSIVE LcsTable(_, _, _, _)
LcsTable(x, y, i, acc) ==
    IF i > Len(x) THEN acc
    ELSE LcsTable(x, y, i + 1, Append(acc, LcsRow(acc[i], x[i], y, 1, <<0>>)))

\* The walk back through the table from its last cell: an insertion is taken
\* first, then a deletion, then a match.
RECURSIVE LcsTrace(_, _, _, _, _, _)
LcsTrace(t, x, y, i, j, acc) ==
    IF j > 0 /\ (i = 0 \/ t[i + 1][j + 1] = t[i + 1][j])
    THEN LcsTrace(t, x, y, i, j - 1, <<Right(y[j])>> \o acc)
    ELSE IF i > 0 /\ (j = 0 \/ t[i + 1][j + 1] = t[i][j + 1])
    THEN LcsTrace(t, x, y, i - 1, j, <<Left(x[i])>> \o acc)
    ELSE IF i > 0 /\ j > 0
    THEN LcsTrace(t, x, y, i - 1, j - 1, <<Both(x[i])>> \o acc)
    ELSE acc

\* Mutant of DiffSlice: the common suffix is trimmed and never put back.
DiffSlice_SuffixLost(x, y) ==
    LET p  == CommonPrefix(x, y, 0)
        s  == CommonSuffix(x, y, Min(Len(x), Len(y)) - p, 0)
        mx == SubSeq(x, p + 1, Len(x) - s)
        my == SubSeq(y, p + 1, Len(y) - s)
        t  == LcsTable(mx, my, 1, <<[j \in 1..(Len(my) + 1) |-> 0]>>)
    IN  [k \in 1..p |-> Both(x[k])] \o LcsTrace(t, mx, my, Len(mx), Len(my), <<>>)

\* diff::slice(x, y): the common prefix and suffix are matched as they stand
\* and the middle is aligned by the table.
DiffSlice(x, y) ==
    LET p  == CommonPrefix(x, y, 0)
        s  == CommonSuffix(x, y, Min(Len(x), Len(y)) - p, 0)
        mx == SubSeq(x, p + 1, Len(x) - s)
        my == SubSeq(y, p + 1, Len(y) - s)
        t  == LcsTable(mx, my, 1, <<[j \in 1..(Len(my) + 1) |-> 0]>>)
    IN  [k \in 1..p |-> Both(x[k])]
        \o LcsTrace(t, mx, my, Len(mx), Len(my), <<>>)
        \o [k \in 1..s |-> Both(x[Len(x) - s + k])]

\* ------------------------------------------------------- migration engine

VARIABLES
    previous,        \* MigrationGenerator.previous: &Dbinfo
    current,         \* MigrationGenerator.current: &Dbinfo
    operations,      \* MigrationGenerator.migrations.operations
    result,          \* what generate returned: "None" while it runs
    pc,              \* the function whose loop over common keys is running
    common_catalogs, \* what the iterator of gen_catalogs' last loop still yields
    common_schemas,  \* the same for gen_schemas
    common_tables,   \* the same for gen_tables
    catalog,         \* key of the catalog pair gen_schemas was called with
    schema,          \* key of the schema pair gen_tables was called with
    table,           \* key of the table pair gen_table was called with
    columns_diff,    \* what gen_table's emission loop still has to consume
    i,               \* gen_table's counter into previous.columns
    j,               \* gen_table's counter into current.columns
    called,          \* the calls this run made: <<function, key path>>
    runs,            \* the runs completed before this one
    dbinfo,          \* the Dbinfo under construction
    ret,             \* what the last call on dbinfo returned
    calls            \* number of calls made on dbinfo

engine_vars == <<previous, current, operations, result, pc, common_catalogs, common_schemas,
                 common_tables, catalog, schema, table, columns_diff, i, j, called, runs>>

dbinfo_vars == <<dbinfo, ret, calls>>

vars == <<engine_vars, dbinfo_vars>>

\* enum MigrationOperation
CreateDatabase(name) == [op |-> "CreateDatabase", name |-> <<name>>]

\* Mutant of DropDatabase: the push of the dropped loop builds the variant of
\* the created loop.
DropDatabase_AsCreate(name) == [op |-> "CreateDatabase", name |-> <<name>>]

DropDatabase(name) == [op |-> "DropDatabase", name |-> <<name>>]

CreateSchema(name) == [op |-> "CreateSchema", name |-> name]

DropSchema(name) == [op |-> "DropSchema", name |-> name]

CreateTable(name, t) == [op |-> "CreateTable", name |-> name, table |-> t]

DropTable(name, t) == [op |-> "DropTable", name |-> name, table |-> t]

\* Mutant of DroppedKeys: every key of previous is taken as dropped.
DroppedKeys_All(prev, cur) == DOMAIN prev

\* previous.difference(&current) over the keys of two maps
DroppedKeys(prev, cur) == (DOMAIN prev) \ (DOMAIN cur)

\* Mutant of CreatedKeys: every key of current is taken as created.
CreatedKeys_All(prev, cur) == DOMAIN cur

\* current.difference(&previous)
CreatedKeys(prev, cur) == (DOMAIN cur) \ (DOMAIN prev)

\* previous.intersection(&current)
CommonKeys(prev, cur) == (DOMAIN prev) \cap (DOMAIN cur)

\* The test under which gen_catalogs calls gen_schemas for a common catalog.
CatalogsDiffer(prev, cur) == prev.default_schema # cur.default_schema

\* The test under which gen_schemas calls gen_tables for a common schema.
SchemasDiffer(prev, cur) == prev.tables # cur.tables

\* The test under which gen_tables calls gen_table for a common table.
TablesDiffer(prev, cur) == prev # cur

\* columns.iter().map(|c| c.name.as_str()).collect()
ColumnNamesOf(t) == [k \in 1..Len(t.columns) |-> t.columns[k].name]

\* first_added_column after the scan: the 0-based index of the first Right.
RECURSIVE FirstAdded(_, _, _)
FirstAdded(d, k, acc) ==
    IF k > Len(d) THEN acc
    ELSE FirstAdded(d, k + 1, IF d[k].tag = "Right" /\ acc = {} THEN {k - 1} ELSE acc)

\* last_common_column after the scan: the 0-based index of the last Both.
RECURSIVE LastCommon(_, _, _)
LastCommon(d, k, acc) ==
    IF k > Len(d) THEN acc
    ELSE LastCommon(d, k + 1, IF d[k].tag = "Both" THEN {k - 1} ELSE acc)

\* Mutant of CanAddColumns: the scan keeps the last Right it meets, not the
\* first (the is_none test is lost).
CanAddColumns_LastAdded(d) ==
    LET added       == {k \in DOMAIN d : d[k].tag = "Right"}
        last_common == LastCommon(d, 1, {})
    IN  ~(/\ added # {}
          /\ last_common # {}
          /\ \E l \in last_common : \A a \in added : a - 1 < l)

\* The check "if we can add columns": FALSE where gen_table bails.
CanAddColumns(d) ==
    LET first_added_column == FirstAdded(d, 1, {})
        last_common_column == LastCommon(d, 1, {})
    IN  ~(/\ first_added_column # {}
          /\ last_common_column # {}
          /\ \E f \in first_added_column : \E l \in last_common_column : f < l)

\* gen_alter_column, gen_drop_column, gen_add_column: each body is todo!(),
\* which panics and pushes nothing.
gen_alter_column(table_name, previous_column, current_column) ==
    [status |-> "Panic", operations |-> <<>>]

gen_drop_column(table_name, previous_column) == [status |-> "Panic", operations |-> <<>>]

gen_add_column(table_name, current_column) == [status |-> "Panic", operations |-> <<>>]

\* One iteration of gen_table's emission loop on item r with counters ci, cj:
\* Vec::get(..).unwrap() panics past the end, before the callee runs.
\* The counters advance only when the callee has returned Ok.
WalkItem(table_name, prev, cur, r, ci, cj) ==
    LET Stopped == [status |-> "Panic", operations |-> <<>>, i |-> ci, j |-> cj]
        After(called_fn, di, dj) ==
            [status |-> called_fn.status, operations |-> called_fn.operations,
             i |-> IF called_fn.status = "Ok" THEN ci + di ELSE ci,
             j |-> IF called_fn.status = "Ok" THEN cj + dj ELSE cj]
    IN  IF r.tag = "Left" THEN
            IF ci >= Len(prev.columns) THEN Stopped
            ELSE After(gen_drop_column(table_name, prev.columns[ci + 1]), 1, 0)
        ELSE IF r.tag = "Both" THEN
            IF ci >= Len(prev.columns) \/ cj >= Len(cur.columns) THEN Stopped
            ELSE After(gen_alter_column(table_name, prev.columns[ci + 1], cur.columns[cj + 1]),
                       1, 1)
        ELSE
            IF cj >= Len(cur.columns) THEN Stopped
            ELSE After(gen_add_column(table_name, cur.columns[cj + 1]), 0, 1)

\* The pair of catalogs, schemas and tables the running loops are at.
PrevCatalog == previous.catalogs[catalog]

CurCatalog == current.catalogs[catalog]

PrevSchema == PrevCatalog.schemas[schema]

CurSchema == CurCatalog.schemas[schema]

PrevTable == PrevSchema.tables[table]

CurTable == CurSchema.tables[table]

\* The state of a MigrationGenerator::new(p, c) on which generate is called.
EngineStart(p, c) ==
    /\ previous = p
    /\ current = c
    /\ operations = <<>>
    /\ result = "None"
    /\ pc = "generate"
    /\ common_catalogs = <<>>
    /\ common_schemas = <<>>
    /\ common_tables = <<>>
    /\ catalog = "none"
    /\ schema = "none"
    /\ table = "none"
    /\ columns_diff = <<>>
    /\ i = 0
    /\ j = 0
    /\ called = {}

\* gen_catalogs up to its last loop: DropDatabase for every dropped catalog,
\* CreateDatabase for every created one, each set in its iterator's order.
GenCatalogs ==
    /\ pc = "generate"
    /\ \E dq \in Orders(DroppedKeys(previous.catalogs, current.catalogs)),
          cq \in Orders(CreatedKeys(previous.catalogs, current.catalogs)),
          nq \in Orders(CommonKeys(previous.catalogs, current.catalogs)) :
            /\ operations' = operations
                                \o [k \in DOMAIN dq |-> DropDatabase(dq[k])]
                                \o [k \in DOMAIN cq |-> CreateDatabase(cq[k])]
            /\ common_catalogs' = nq
    /\ pc' = "gen_catalogs"
    /\ called' = called \cup {<<"gen_catalogs", <<>>>>}
    /\ UNCHANGED <<previous, current, result, common_schemas, common_tables, catalog, schema,
                   table, columns_diff, i, j, runs, dbinfo_vars>>

\* The last loop of gen_catalogs at a common catalog it does not descend into.
SkipCatalog ==
    /\ pc = "gen_catalogs"
    /\ common_catalogs # <<>>
    /\ ~CatalogsDiffer(previous.catalogs[Head(common_catalogs)],
                       current.catalogs[Head(common_catalogs)])
    /\ common_catalogs' = Tail(common_catalogs)
    /\ UNCHANGED <<previous, current, operations, result, pc, common_schemas, common_tables,
                   catalog, schema, table, columns_diff, i, j, called, runs, dbinfo_vars>>

\* gen_schemas(previous_catalog, current_catalog) up to its last loop; the
\* names it emits start with current.name.
GenSchemas ==
    /\ pc = "gen_catalogs"
    /\ common_catalogs # <<>>
    /\ LET c    == Head(common_catalogs)
           prev == previous.catalogs[c]
           cur  == current.catalogs[c]
       IN  /\ CatalogsDiffer(prev, cur)
           /\ \E dq \in Orders(DroppedKeys(prev.schemas, cur.schemas)),
                 cq \in Orders(CreatedKeys(prev.schemas, cur.schemas)),
                 nq \in Orders(CommonKeys(prev.schemas, cur.schemas)) :
                   /\ operations' = operations
                                       \o [k \in DOMAIN dq |-> DropSchema(<<cur.name, dq[k]>>)]
                                       \o [k \in DOMAIN cq |-> CreateSchema(<<cur.name, cq[k]>>)]
                   /\ common_schemas' = nq
           /\ catalog' = c
           /\ called' = called \cup {<<"gen_schemas", <<c>>>>}
    /\ pc' = "gen_schemas"
    /\ UNCHANGED <<previous, current, result, common_catalogs, common_tables, schema, table,
                   columns_diff, i, j, runs, dbinfo_vars>>

\* The last loop of gen_schemas at a common schema whose table maps are equal.
SkipSchema ==
    /\ pc = "gen_schemas"
    /\ common_schemas # <<>>
    /\ ~SchemasDiffer(PrevCatalog.schemas[Head(common_schemas)],
                      CurCatalog.schemas[Head(common_schemas)])
    /\ common_schemas' = Tail(common_schemas)
    /\ UNCHANGED <<previous, current, operations, result, pc, common_catalogs, common_tables,
                   catalog, schema, table, columns_diff, i, j, called, runs, dbinfo_vars>>

\* gen_tables(&current.name, previous_schema, current_schema) up to its last
\* loop; DropTable carries previous' table, CreateTable current's.
GenTables ==
    /\ pc = "gen_schemas"
    /\ common_schemas # <<>>
    /\ LET s    == Head(common_schemas)
           prev == PrevCatalog.schemas[s]
           cur  == CurCatalog.schemas[s]
           name(t) == <<CurCatalog.name, cur.name, t>>
       IN  /\ SchemasDiffer(prev, cur)
           /\ \E dq \in Orders(DroppedKeys(prev.tables, cur.tables)),
                 cq \in Orders(CreatedKeys(prev.tables, cur.tables)),
                 nq \in Orders(CommonKeys(prev.tables, cur.tables)) :
                   /\ operations' = operations
                        \o [k \in DOMAIN dq |-> DropTable(name(dq[k]), prev.tables[dq[k]])]
                        \o [k \in DOMAIN cq |-> CreateTable(name(cq[k]), cur.tables[cq[k]])]
                   /\ common_tables' = nq
           /\ schema' = s
           /\ called' = called \cup {<<"gen_tables", <<catalog, s>>>>}
    /\ pc' = "gen_tables"
    /\ UNCHANGED <<previous, current, result, common_catalogs, common_schemas, catalog, table,
                   columns_diff, i, j, runs, dbinfo_vars>>

\* gen_schemas returns Ok to the loop of gen_catalogs.
ReturnSchemas ==
    /\ pc = "gen_schemas"
    /\ common_schemas = <<>>
    /\ pc' = "gen_catalogs"
    /\ common_catalogs' = Tail(common_catalogs)
    /\ UNCHANGED <<previous, current, operations, result, common_schemas, common_tables,
                   catalog, schema, table, columns_diff, i, j, called, runs, dbinfo_vars>>

\* The last loop of gen_tables at a common table equal in both snapshots.
SkipTable ==
    /\ pc = "gen_tables"
    /\ common_tables # <<>>
    /\ ~TablesDiffer(PrevSchema.tables[Head(common_tables)], CurSchema.tables[Head(common_tables)])
    /\ common_tables' = Tail(common_tables)
    /\ UNCHANGED <<previous, current, operations, result, pc, common_catalogs, common_schemas,
                   catalog, schema, table, columns_diff, i, j, called, runs, dbinfo_vars>>

\* gen_table up to its emission loop: the alignment of the two column-name
\* lists and the check that bails when a column is added before a kept one.
GenTable ==
    /\ pc = "gen_tables"
    /\ common_tables # <<>>
    /\ LET t    == Head(common_tables)
           prev == PrevSchema.tables[t]
           cur  == CurSchema.tables[t]
           d    == DiffSlice(ColumnNamesOf(prev), ColumnNamesOf(cur))
       IN  /\ TablesDiffer(prev, cur)
           /\ table' = t
           /\ called' = called \cup {<<"gen_table", <<catalog, schema, t>>>>}
           /\ IF CanAddColumns(d)
              THEN /\ columns_diff' = d
                   /\ pc' = "gen_table"
                   /\ result' = result
              ELSE /\ columns_diff' = columns_diff
                   /\ pc' = "done"
                   /\ result' = "UnsupportedDiff"
    /\ i' = 0
    /\ j' = 0
    /\ UNCHANGED <<previous, current, operations, common_catalogs, common_schemas,
                   common_tables, catalog, schema, runs, dbinfo_vars>>

\* gen_tables returns Ok to the loop of gen_schemas.
ReturnTables ==
    /\ pc = "gen_tables"
    /\ common_tables = <<>>
    /\ pc' = "gen_schemas"
    /\ common_schemas' = Tail(common_schemas)
    /\ UNCHANGED <<previous, current, operations, result, common_catalogs, common_tables,
                   catalog, schema, table, columns_diff, i, j, called, runs, dbinfo_vars>>

\* One iteration of the emission loop of gen_table.
WalkColumn ==
    /\ pc = "gen_table"
    /\ columns_diff # <<>>
    /\ LET r == WalkItem(<<CurCatalog.name, CurSchema.name, CurTable.name>>,
                         PrevTable, CurTable, Head(columns_diff), i, j)
       IN  /\ operations' = operations \o r.operations
           /\ i' = r.i
           /\ j' = r.j
           /\ IF r.status = "Ok"
              THEN /\ columns_diff' = Tail(columns_diff)
                   /\ pc' = pc
                   /\ result' = result
              ELSE /\ columns_diff' = columns_diff
                   /\ pc' = "done"
                   /\ result' = r.status
    /\ UNCHANGED <<previous, current, common_catalogs, common_schemas, common_tables, catalog,
                   schema, table, called, runs, dbinfo_vars>>

\* gen_table returns Ok to the loop of gen_tables.
ReturnTable ==
    /\ pc = "gen_table"
    /\ columns_diff = <<>>
    /\ pc' = "gen_tables"
    /\ common_tables' = Tail(common_tables)
    /\ UNCHANGED <<previous, current, operations, result, common_catalogs, common_schemas,
                   catalog, schema, table, columns_diff, i, j, called, runs, dbinfo_vars>>

\* gen_catalogs returns Ok and generate returns Ok(self.migrations).
Finish ==
    /\ pc = "gen_catalogs"
    /\ common_catalogs = <<>>
    /\ pc' = "done"
    /\ result' = "Ok"
    /\ UNCHANGED <<previous, current, operations, common_catalogs, common_schemas,
                   common_tables, catalog, schema, table, columns_diff, i, j, called, runs,
                   dbinfo_vars>>

\* A second MigrationGenerator::new(..).generate() on the same two snapshots,
\* in the same order or swapped; the finished run is kept for comparison.
Rerun(swap) ==
    /\ pc = "done"
    /\ runs = <<>>
    /\ runs' = Append(runs, [previous |-> previous, current |-> current,
                             result |-> result, operations |-> operations])
    /\ previous' = IF swap THEN current ELSE previous
    /\ current' = IF swap THEN previous ELSE current
    /\ operations' = <<>>
    /\ result' = "None"
    /\ pc' = "generate"
    /\ common_catalogs' = <<>>
    /\ common_schemas' = <<>>
    /\ common_tables' = <<>>
    /\ catalog' = "none"
    /\ schema' = "none"
    /\ table' = "none"
    /\ columns_diff' = <<>>
    /\ i' = 0
    /\ j' = 0
    /\ called' = {}
    /\ UNCHANGED dbinfo_vars

Engine ==
    \/ GenCatalogs
    \/ SkipCatalog
    \/ GenSchemas
    \/ SkipSchema
    \/ GenTables
    \/ ReturnSchemas
    \/ SkipTable
    \/ GenTable
    \/ ReturnTables
    \/ WalkColumn
    \/ ReturnTable
    \/ Finish

\* ------------------------------------------------------------ catalog model

\* Dbinfo::with_options
with_options(options) ==
    Dbinfo(options.dialect, options.database,
           [c \in {options.database} |->
               Catalog(options.database, options.default_schema,
                       [s \in {options.default_schema} |->
                           Schema(options.default_schema, EmptyMap)])])

\* Mutant of add_catalog: the new catalog is the only entry left.
add_catalog_Only(d, name, c) == [d EXCEPT !.catalogs = [x \in {name} |-> c]]

\* Dbinfo::add_catalog
add_catalog(d, name, c) == [d EXCEPT !.catalogs = Insert(@, name, c)]

\* Dbinfo::get_catalog, Dbinfo::get_catalog_mut: the catalog's key, or the
\* error "catalog does not found".
get_catalog(d, name) ==
    IF name \in DOMAIN d.catalogs THEN [status |-> "Ok", key |-> name]
    ELSE [status |-> "NotFound", key |-> name]

\* Dbinfo::default_catalog, Dbinfo::default_catalog_mut: get(..).unwrap()
default_catalog(d) ==
    IF d.default_catalog \in DOMAIN d.catalogs THEN [status |-> "Ok", key |-> d.default_catalog]
    ELSE [status |-> "Panic", key |-> d.default_catalog]

\* Catalog::default_schema, Catalog::default_schema_mut: get(..).unwrap()
default_schema(c) ==
    IF c.default_schema \in DOMAIN c.schemas THEN [status |-> "Ok", key |-> c.default_schema]
    ELSE [status |-> "Panic", key |-> c.default_schema]

\* Mutant of get_schema: a schema that is not found falls back to the
\* catalog's default schema.
get_schema_Fallback(c, name) ==
    IF name \in DOMAIN c.schemas THEN [status |-> "Ok", key |-> name] ELSE default_schema(c)

\* Catalog::get_schema, Catalog::get_schema_mut: the schema's key, or the error
\* "schema does not found".
get_schema(c, name) ==
    IF name \in DOMAIN c.schemas THEN [status |-> "Ok", key |-> name]
    ELSE [status |-> "NotFound", key |-> name]

\* The catalog add_table and get_table resolve name to.
ResolveCatalog(d, name) ==
    IF name.catalog # {} THEN get_catalog(d, CHOOSE n \in name.catalog : TRUE)
    ELSE default_catalog(d)

\* The schema of catalog c add_table and get_table resolve name to.
ResolveSchema(c, name) ==
    IF name.schema # {} THEN get_schema(c, CHOOSE n \in name.schema : TRUE)
    ELSE default_schema(c)

\* Dbinfo::add_table: the status returned and the Dbinfo left behind.
add_table(d, name, t) ==
    LET c == ResolveCatalog(d, name)
    IN  IF c.status # "Ok" THEN [status |-> c.status, dbinfo |-> d]
        ELSE LET s == ResolveSchema(d.catalogs[c.key], name)
             IN  IF s.status # "Ok" THEN [status |-> s.status, dbinfo |-> d]
                 ELSE [status |-> "Ok",
                       dbinfo |-> [d EXCEPT !.catalogs[c.key].schemas[s.key].tables =
                                                Insert(@, name.table, t)]]

\* Schema::get_table: the table stored under the key name, or the error
\* "table does not found".
schema_get_table(s, name) ==
    IF name \in DOMAIN s.tables THEN [status |-> "Ok", table |-> {s.tables[name]}]
    ELSE [status |-> "NotFound", table |-> {}]

\* Dbinfo::get_table: the status returned and the table found, if any.
get_table(d, name) ==
    LET c == ResolveCatalog(d, name)
    IN  IF c.status # "Ok" THEN [status |-> c.status, table |-> {}]
        ELSE LET s == ResolveSchema(d.catalogs[c.key], name)
             IN  IF s.status # "Ok" THEN [status |-> s.status, table |-> {}]
                 ELSE schema_get_table(d.catalogs[c.key].schemas[s.key], name.table)

\* ---------------------------------------------------------------- inspector

\* Mutant of inspect_table_name: two parts are schema and table under every
\* dialect.
inspect_table_name_SchemaFirst(dialect, name) ==
    IF Len(name) = 1 THEN [status |-> "Ok", table_name |-> {TableName({}, {}, name[1])}]
    ELSE IF Len(name) = 2
    THEN [status |-> "Ok", table_name |-> {TableName({}, {name[1]}, name[2])}]
    ELSE IF Len(name) = 3 /\ dialect = "PostgreSql"
    THEN [status |-> "Ok", table_name |-> {TableName({name[1]}, {name[2]}, name[3])}]
    ELSE [status |-> "InvalidName", table_name |-> {}]

\* Inspector::inspect_table_name: the TableName read off the parts of an
\* ObjectName under the dialect, or the error "invalid table name".
inspect_table_name(dialect, name) ==
    LET Invalid == [status |-> "InvalidName", table_name |-> {}]
        Valid(c, s, t) == [status |-> "Ok", table_name |-> {TableName(c, s, t)}]
    IN  CASE Len(name) = 1 -> Valid({}, {}, name[1])
          [] Len(name) = 2 ->
                (CASE dialect = "PostgreSql" -> Valid({}, {name[1]}, name[2])
                   [] dialect = "MySql" -> Valid({name[1]}, {}, name[2])
                   [] dialect = "SQLite" -> Invalid)
          [] Len(name) = 3 ->
                (CASE dialect = "PostgreSql" -> Valid({name[1]}, {name[2]}, name[3])
                   [] dialect = "MySql" -> Invalid
                   [] dialect = "SQLite" -> Invalid)
          [] OTHER -> Invalid

\* Inspector::inspect_column
inspect_column(column) == Column(column.name, column.data_type)

\* The kinds of Statement inspect_stmt matches by name; every other kind
\* falls to its last arm.
TodoKinds ==
    {"CreateView", "CreateIndex", "CreateSchema", "CreateDatabase", "AlterTable",
     "CreateExtension"}

\* The fields of Statement::CreateTable that inspect_stmt refuses before it
\* reads the table name, in the order it tests them.
EarlyChecks ==
    <<"temporary", "external", "transient", "table_properties", "file_format",
      "location", "query", "clone", "on_cluster", "cluster_by">>

\* Statement::CreateTable: its name, its column definitions, and the set of
\* its fields among EarlyChecks and "like" that are set.
CreateTableStmt(name, columns, fields, strict) ==
    [kind |-> "CreateTable", name |-> name, columns |-> columns, fields |-> fields,
     strict |-> strict]

\* A statement of any other kind.
OtherStmt(kind) == [kind |-> kind]

\* Inspector::inspect_stmt, the arm of Statement::CreateTable.
inspect_create_table(d, stmt) ==
    LET refused == {k \in DOMAIN EarlyChecks : EarlyChecks[k] \in stmt.fields}
        table_name == inspect_table_name(d.dialect, stmt.name)
    IN  IF refused # {}
        THEN [status |-> "Unsupported", dbinfo |-> d]
        ELSE IF table_name.status # "Ok"
        THEN [status |-> table_name.status, dbinfo |-> d]
        ELSE IF "like" \in stmt.fields
        THEN [status |-> "Unsupported", dbinfo |-> d]
        ELSE LET tn == CHOOSE n \in table_name.table_name : TRUE
                 columns == [k \in DOMAIN stmt.columns |-> inspect_column(stmt.columns[k])]
                 added == add_table(d, tn, Table(tn.table, columns, stmt.strict))
             IN  [status |-> IF added.status = "Panic" THEN "Panic" ELSE "Ok",
                  dbinfo |-> added.dbinfo]

\* Inspector::inspect_stmt
inspect_stmt(d, stmt) ==
    CASE stmt.kind = "CreateTable" -> inspect_create_table(d, stmt)
      [] stmt.kind \in TodoKinds -> [status |-> "Panic", dbinfo |-> d]
      [] OTHER -> [status |-> "Ok", dbinfo |-> d]

\* The loop of Inspector::inspect from the statement at position k of sql:
\* parse_statement()? and inspect_stmt(..)? return at the first error, loc is
\* the position of the statement the run stopped at (0: the run reached EOF).
RECURSIVE inspect_from(_, _, _)
inspect_from(d, sql, k) ==
    IF k > Len(sql) THEN [status |-> "Ok", loc |-> 0, dbinfo |-> d]
    ELSE IF sql[k].kind = "SyntaxError" THEN [status |-> "ParserError", loc |-> k, dbinfo |-> d]
    ELSE LET r == inspect_stmt(d, sql[k])
         IN  IF r.status # "Ok" THEN [status |-> r.status, loc |-> k, dbinfo |-> r.dbinfo]
             ELSE inspect_from(r.dbinfo, sql, k + 1)

\* Inspector::inspect
inspect(d, sql) == inspect_from(d, sql, 1)

\* The snapshots of the hierarchy universe are built on these options.
DefaultOptions == [dialect |-> "PostgreSql", database |-> "db", default_schema |-> "public"]

\* The tables of the hierarchy universe: "events" with no column, with no
\* column and strict, and with one column; any other table with no column.
HierTables(n) ==
    IF n = "events"
    THEN {Table(n, <<>>, FALSE), Table(n, <<>>, TRUE), Table(n, <<Column("a", "INT")>>, FALSE)}
    ELSE {Table(n, <<>>, FALSE)}

\* Number of tables in catalog c.
TableCount(c) ==
    Cardinality({st \in SchemaNames \X TableNames :
                    st[1] \in DOMAIN c.schemas /\ st[2] \in DOMAIN c.schemas[st[1]].tables})

\* The schemas named s holding any of these tables under their own names.
HierSchemas(s) ==
    UNION {{Schema(s, m) : m \in {f \in [T -> UNION {HierTables(n) : n \in T}] :
                                    \A n \in T : f[n].name = n}} : T \in SUBSET TableNames}

\* The catalogs named c whose default schema is one of their schemas.
HierCatalogs(c) ==
    UNION {{Catalog(c, d, m) : m \in {f \in [S -> UNION {HierSchemas(s) : s \in S}] :
                                        \A s \in S : f[s].name = s}} :
           <<d, S>> \in {ds \in SchemaNames \X SUBSET SchemaNames : ds[1] \in ds[2]}}

\* A catalog as with_options makes it: its default schema alone, empty.
FreshCatalog(c) == with_options([DefaultOptions EXCEPT !.database = c]).catalogs[c]

\* The snapshots: with_options' catalog "db" filled with schemas and tables,
\* and any further catalogs added by add_catalog as with_options makes them.
Snapshots ==
    {Dbinfo(DefaultOptions.dialect, DefaultOptions.database,
            [c \in {DefaultOptions.database} \cup X |->
                IF c = DefaultOptions.database THEN db ELSE FreshCatalog(c)]) :
     db \in {c \in HierCatalogs(DefaultOptions.database) : TableCount(c) <= MaxTables},
     X \in SUBSET (CatalogNames \ {DefaultOptions.database})}

\* The Dbinfo variables while the engine runs.
DbinfoIdle ==
    /\ dbinfo = with_options(DefaultOptions)
    /\ ret = [call |-> "with_options", name |-> DefaultOptions.database, status |-> "Ok"]
    /\ calls = 0

Init ==
    /\ \E p \in Snapshots, c \in Snapshots : EngineStart(p, c)
    /\ runs = <<>>
    /\ DbinfoIdle

\* diff(P, C), then diff(C, P).
Next == Engine \/ Rerun(TRUE)

Spec == Init /\ [][Next]_vars

\* diff(P, C), then diff(P, C) once more.
NextRepeat == Engine \/ Rerun(FALSE)

SpecRepeat == Init /\ [][NextRepeat]_vars

\* ------------------------------------------------- column-level universe

\* The column lists of at most MaxColumns columns; names may repeat.
ColumnLists ==
    {[k \in DOMAIN q |-> Column(q[k], "INT")] : q \in SeqsUpTo(ColumnNames, MaxColumns)}

\* A snapshot whose catalog "db" has the given default schema (and the schema
\* "public" besides) and the one table public.events with the given columns.
ColumnSnapshot(default, cols, strict) ==
    Dbinfo(DefaultOptions.dialect, DefaultOptions.database,
           [c \in {DefaultOptions.database} |->
               Catalog(c, default,
                       [s \in {"public", default} |->
                           Schema(s, IF s = "public"
                                     THEN [t \in {"events"} |-> Table(t, cols, strict)]
                                     ELSE EmptyMap)])])

\* Two snapshots whose default schemas differ, so that the engine descends to
\* the one table they share.
InitColumns ==
    /\ \E pcols \in ColumnLists, ccols \in ColumnLists, strict \in BOOLEAN :
          EngineStart(ColumnSnapshot("public", pcols, FALSE),
                      ColumnSnapshot("reporting", ccols, strict))
    /\ runs = <<>>
    /\ DbinfoIdle

\* The engine's steps on the column-level universe: one common catalog, one
\* common schema, one common table, one run.
NextColumns ==
    \/ GenCatalogs
    \/ GenSchemas
    \/ SkipSchema
    \/ GenTables
    \/ ReturnSchemas
    \/ GenTable
    \/ ReturnTables
    \/ WalkColumn
    \/ ReturnTable
    \/ Finish

SpecColumns == InitColumns /\ [][NextColumns]_vars

\* --------------------------------------------------- building a Dbinfo

\* The engine's variables while a Dbinfo is built.
EngineIdle ==
    /\ EngineStart(with_options(DefaultOptions), with_options(DefaultOptions))
    /\ runs = <<>>

\* The catalogs handed to add_catalog: any default schema, any set of empty
\* schemas (the fields of Catalog are public: the default need not be a key).
CatalogArgs(c) ==
    {Catalog(c, d, [s \in S |-> Schema(s, EmptyMap)]) :
        d \in SchemaNames, S \in SUBSET SchemaNames}

\* Option<Ident> over the names N.
Optional(N) == {{}} \cup {{n} : n \in N}

\* The names handed to add_table.
TableNameArgs ==
    {TableName(c, s, "events") : c \in Optional(CatalogNames), s \in Optional(SchemaNames)}

\* The tables handed to add_table under the name n.
TableArgs(n) == {Table(n, <<>>, FALSE), Table(n, <<Column("a", "INT")>>, FALSE)}

\* The column definitions of the CREATE TABLE statements handed to inspect.
ColumnDefArgs == <<[name |-> "b", data_type |-> "TEXT"], [name |-> "a", data_type |-> "INT"]>>

\* The object names of the CREATE TABLE statements handed to inspect.
ObjectNameArgs ==
    {<<"events">>, <<"reporting", "events">>, <<"db", "events">>,
     <<"aux", "reporting", "events">>}

\* The statements handed to inspect: CREATE TABLE under each object name,
\* CREATE TABLE events with one refused field set, one statement of each kind
\* inspect_stmt names, one of a kind it does not name (DROP TABLE), and a text
\* parse_statement fails on.
StatementArgs ==
    {CreateTableStmt(n, ColumnDefArgs, {}, FALSE) : n \in ObjectNameArgs}
    \cup {CreateTableStmt(<<"events">>, ColumnDefArgs, {f}, FALSE) :
             f \in {EarlyChecks[k] : k \in DOMAIN EarlyChecks} \cup {"like"}}
    \cup {OtherStmt(k) : k \in TodoKinds \cup {"Drop", "SyntaxError"}}

\* The texts handed to inspect: no statement, one statement, or one statement
\* followed by CREATE TABLE events.
SqlArgs ==
    {<<>>} \cup {<<st>> : st \in StatementArgs}
    \cup {<<st, CreateTableStmt(<<"events">>, ColumnDefArgs, {}, FALSE)>> : st \in StatementArgs}

InitDbinfo ==
    /\ \E dialect \in Dialects :
          dbinfo = with_options([DefaultOptions EXCEPT !.dialect = dialect])
    /\ ret = [call |-> "with_options", name |-> DefaultOptions.database, status |-> "Ok"]
    /\ calls = 0
    /\ EngineIdle

\* dbinfo.add_catalog(name, catalog)
AddCatalog ==
    /\ calls < MaxCalls
    /\ \E name \in CatalogNames : \E c \in CatalogArgs(name) :
        /\ dbinfo' = add_catalog(dbinfo, name, c)
        /\ ret' = [call |-> "add_catalog", name |-> name, catalog |-> c, status |-> "Ok"]
    /\ calls' = calls + 1
    /\ UNCHANGED engine_vars

\* dbinfo.add_table(&name, table)
AddTable ==
    /\ calls < MaxCalls
    /\ \E name \in TableNameArgs : \E t \in TableArgs(name.table) :
        /\ dbinfo' = add_table(dbinfo, name, t).dbinfo
        /\ ret' = [call |-> "add_table", name |-> name, table |-> t,
                   status |-> add_table(dbinfo, name, t).status]
    /\ calls' = calls + 1
    /\ UNCHANGED engine_vars

\* dbinfo.get_table(&name)
GetTable ==
    /\ calls < MaxCalls
    /\ \E name \in TableNameArgs :
        ret' = [call |-> "get_table", name |-> name, table |-> get_table(dbinfo, name).table,
                status |-> get_table(dbinfo, name).status]
    /\ calls' = calls + 1
    /\ UNCHANGED <<dbinfo, engine_vars>>

\* Inspector::new(&mut dbinfo).inspect(sql, filename)
Inspect ==
    /\ calls < MaxCalls
    /\ \E sql \in SqlArgs :
        /\ dbinfo' = inspect(dbinfo, sql).dbinfo
        /\ ret' = [call |-> "inspect", sql |-> sql, loc |-> inspect(dbinfo, sql).loc,
                   status |-> inspect(dbinfo, sql).status]
    /\ calls' = calls + 1
    /\ UNCHANGED engine_vars

NextDbinfo == AddCatalog \/ AddTable \/ GetTable \/ Inspect

SpecDbinfo == InitDbinfo /\ [][NextDbinfo]_vars

\* ------------------------------------------------- reading object names

\* The identifiers of the object names handed to inspect_table_name.
PartNames == {"db", "public", "events"}

\* An Inspector of any dialect and an ObjectName of up to MaxParts parts.
InitNames ==
    /\ \E dialect \in Dialects :
          dbinfo = with_options([DefaultOptions EXCEPT !.dialect = dialect])
    /\ \E name \in SeqsUpTo(PartNames, MaxParts) :
          ret = [call |-> "ObjectName", name |-> name, status |-> "None"]
    /\ calls = 0
    /\ EngineIdle

\* self.inspect_table_name(name, loc)
InspectTableName ==
    /\ ret.call = "ObjectName"
    /\ ret' = [call |-> "inspect_table_name", name |-> ret.name,
               table_name |-> inspect_table_name(dbinfo.dialect, ret.name).table_name,
               status |-> inspect_table_name(dbinfo.dialect, ret.name).status]
    /\ calls' = calls + 1
    /\ UNCHANGED <<dbinfo, engine_vars>>

NextNames == InspectTableName

SpecNames == InitNames /\ [][NextNames]_vars

\* ------------------------------------------------------------------ claims

\* Number of operations of kind op and name n in the list ops.
Count(ops, op, n) == Cardinality({k \in DOMAIN ops : ops[k].op = op /\ ops[k].name = n})

\* Some operation of ops equal to a comes before some operation equal to b.
Before(ops, a, b) == \E m, n \in DOMAIN ops : m < n /\ ops[m] = a /\ ops[n] = b

\* The catalogs present in both snapshots.
CommonCatalogs == (DOMAIN previous.catalogs) \cap (DOMAIN current.catalogs)

\* C1: when generate has returned Ok, gen_schemas was called on every catalog
\* present in both snapshots whose two versions differ in anything (default
\* schema name, schema keys, tables), also when their default schema names
\* are equal.
C1_RecursesIntoEveryDifferingCatalog ==
    (pc = "done" /\ result = "Ok") =>
        \A c \in CommonCatalogs :
            previous.catalogs[c] # current.catalogs[c] => <<"gen_schemas", <<c>>>> \in called

\* C2: a run on two equal snapshots never fails and pushes no operation, so
\* diff(S, S) returns Ok with an empty list.
C2_DiffOfEqualSnapshotsIsEmpty ==
    previous = current =>
        /\ operations = <<>>
        /\ result \in {"None", "Ok"}
        /\ pc = "done" => result = "Ok"

\* C2 witness: generate has returned on two equal snapshots of two catalogs
\* and two tables.
C2_Witness ==
    /\ pc = "done"
    /\ previous = current
    /\ Cardinality(DOMAIN previous.catalogs) = 2
    /\ TableCount(previous.catalogs["db"]) = 2

\* The column names of the table pair gen_table was called with, and their
\* alignment.
PrevNames == ColumnNamesOf(PrevTable)

CurNames == ColumnNamesOf(CurTable)

Alignment == DiffSlice(PrevNames, CurNames)

\* Some Added item of the alignment d stands before some Kept item.
AddedBeforeKept(d) == \E a, k \in DOMAIN d : a < k /\ d[a].tag = "Right" /\ d[k].tag = "Both"

GenTableCalled == \E path \in SchemaNames \X TableNames :
                      <<"gen_table", <<"db", path[1], path[2]>>>> \in called

\* C3: once gen_table has been called on a table pair, the run has failed
\* with UnsupportedDiff exactly when some Added item of the pair's alignment
\* stands before some Kept item; previous [a, b] with current [a, x, b] and
\* with current [x, a, b] fail so, and previous [a, b] with current [a, b, x]
\* does not.
C3_UnsupportedDiffIffAddedBeforeKept ==
    GenTableCalled =>
        /\ result = "UnsupportedDiff" <=> AddedBeforeKept(Alignment)
        /\ (PrevNames = <<"a", "b">> /\ CurNames \in {<<"a", "x", "b">>, <<"x", "a", "b">>})
              => result = "UnsupportedDiff"
        /\ (PrevNames = <<"a", "b">> /\ CurNames = <<"a", "b", "x">>)
              => result # "UnsupportedDiff"

\* C3 witness: the run on previous [a, b] and current [a, x, b] has ended with
\* UnsupportedDiff.
C3_Witness ==
    /\ GenTableCalled
    /\ PrevNames = <<"a", "b">>
    /\ CurNames = <<"a", "x", "b">>
    /\ pc = "done"
    /\ result = "UnsupportedDiff"

\* enum AlterTableOperation as the column-level diff is to emit it: the
\* operation of one alignment item, tagged with the qualified table name.
ColumnOperation(table_name, item) ==
    [op |-> IF item.tag = "Left" THEN "DropColumn"
            ELSE IF item.tag = "Both" THEN "AlterColumn" ELSE "AddColumn",
     name |-> table_name, column |-> item.name]

\* The operations of ops from position n on.
From(ops, n) == SubSeq(ops, n, Len(ops))

\* C4: a run that called gen_table on a table pair whose alignment is legal
\* does not fail, and what it appended to the operation list from that call
\* on is, in alignment order, one DropColumn per Removed item, one
\* AlterColumn per Kept item and one AddColumn per Added item, each tagged
\* with the qualified table name.
C4_ColumnOperationsInAlignmentOrder ==
    (pc = "done" /\ GenTableCalled /\ ~AddedBeforeKept(Alignment)) =>
        /\ result = "Ok"
        /\ \E n \in 1..(Len(operations) + 1) :
              From(operations, n) =
                  [k \in DOMAIN Alignment |->
                      ColumnOperation(<<catalog, schema, table>>, Alignment[k])]

\* C3 and C4 are checked under SpecColumns, the claims below under Spec.

\* C5: when generate has returned Ok, for every schema of current that
\* previous lacks, inside a catalog present in both, the list has the schema's
\* CreateSchema before a CreateTable for each of the schema's tables. It is
\* stated of the catalogs gen_schemas was called on, where the trigger of C1
\* plays no part.
C5_CreateSchemaBeforeItsCreateTables ==
    (pc = "done" /\ result = "Ok") =>
        \A c \in {x \in CommonCatalogs : <<"gen_schemas", <<x>>>> \in called} :
            \A s \in (DOMAIN current.catalogs[c].schemas) \ (DOMAIN previous.catalogs[c].schemas) :
                \A t \in DOMAIN current.catalogs[c].schemas[s].tables :
                    Before(operations, CreateSchema(<<c, s>>),
                           CreateTable(<<c, s, t>>, current.catalogs[c].schemas[s].tables[t]))

\* C6: when generate has returned Ok, for every schema of previous that
\* current lacks, inside a catalog present in both, the list has a DropTable
\* for each of the schema's tables before the schema's DropSchema. It is
\* stated of the catalogs gen_schemas was called on, where the trigger of C1
\* plays no part.
C6_DropTablesBeforeTheirDropSchema ==
    (pc = "done" /\ result = "Ok") =>
        \A c \in {x \in CommonCatalogs : <<"gen_schemas", <<x>>>> \in called} :
            \A s \in (DOMAIN previous.catalogs[c].schemas) \ (DOMAIN current.catalogs[c].schemas) :
                \A t \in DOMAIN previous.catalogs[c].schemas[s].tables :
                    Before(operations,
                           DropTable(<<c, s, t>>, previous.catalogs[c].schemas[s].tables[t]),
                           DropSchema(<<c, s>>))

\* The Create kinds and the Drop kinds that answer them.
CreateDropKinds ==
    {<<"CreateDatabase", "DropDatabase">>, <<"CreateSchema", "DropSchema">>,
     <<"CreateTable", "DropTable">>}

\* The names the operations of ops carry.
NamesOf(ops) == {ops[k].name : k \in DOMAIN ops}

\* The second run was made on the first run's snapshots, swapped.
SwappedRun ==
    /\ runs # <<>>
    /\ runs[1].previous = current
    /\ runs[1].current = previous

\* The second run was made on the first run's snapshots, in the same order.
RepeatedRun ==
    /\ runs # <<>>
    /\ runs[1].previous = previous
    /\ runs[1].current = current

\* C7: when diff(P, C) and diff(C, P) have both returned Ok, every kind of
\* Create and every qualified name occurs as often among the Create
\* operations of one list as among the Drop operations of the other, both
\* ways round.
C7_CreateDropSymmetry ==
    (pc = "done" /\ result = "Ok" /\ SwappedRun /\ runs[1].result = "Ok") =>
        \A kinds \in CreateDropKinds :
            \A n \in NamesOf(operations) \cup NamesOf(runs[1].operations) :
                /\ Count(runs[1].operations, kinds[1], n) = Count(operations, kinds[2], n)
                /\ Count(runs[1].operations, kinds[2], n) = Count(operations, kinds[1], n)

\* C7 witness: both runs have returned Ok, the first with a CreateDatabase, a
\* DropSchema and a CreateTable in its list.
C7_Witness ==
    /\ pc = "done"
    /\ result = "Ok"
    /\ SwappedRun
    /\ runs[1].result = "Ok"
    /\ previous # current
    /\ \E a, b, c \in DOMAIN runs[1].operations :
          /\ runs[1].operations[a].op = "CreateDatabase"
          /\ runs[1].operations[b].op = "DropSchema"
          /\ runs[1].operations[c].op = "CreateTable"

\* 1 for TRUE, 0 for FALSE.
Expect(b) == IF b THEN 1 ELSE 0

\* C8: as soon as a level has been entered (gen_catalogs; gen_schemas on a
\* catalog pair; gen_tables on a schema pair), the list holds exactly one
\* Drop for each key of that level in previous only, exactly one Create for
\* each key in current only and none for a key in both; a DropTable carries
\* previous' table and a CreateTable current's.
C8_OneDropPerDroppedOneCreatePerCreated ==
    /\ <<"gen_catalogs", <<>>>> \in called =>
          \A c \in CatalogNames :
              /\ Count(operations, "DropDatabase", <<c>>) =
                    Expect(c \in DOMAIN previous.catalogs /\ c \notin DOMAIN current.catalogs)
              /\ Count(operations, "CreateDatabase", <<c>>) =
                    Expect(c \in DOMAIN current.catalogs /\ c \notin DOMAIN previous.catalogs)
    /\ \A c \in CatalogNames : <<"gen_schemas", <<c>>>> \in called =>
          \A s \in SchemaNames :
              /\ Count(operations, "DropSchema", <<c, s>>) =
                    Expect(s \in DOMAIN previous.catalogs[c].schemas
                           /\ s \notin DOMAIN current.catalogs[c].schemas)
              /\ Count(operations, "CreateSchema", <<c, s>>) =
                    Expect(s \in DOMAIN current.catalogs[c].schemas
                           /\ s \notin DOMAIN previous.catalogs[c].schemas)
    /\ \A c \in CatalogNames, s \in SchemaNames : <<"gen_tables", <<c, s>>>> \in called =>
          LET prev == previous.catalogs[c].schemas[s].tables
              cur  == current.catalogs[c].schemas[s].tables
          IN  \A t \in TableNames :
                  /\ Count(operations, "DropTable", <<c, s, t>>) =
                        Expect(t \in DOMAIN prev /\ t \notin DOMAIN cur)
                  /\ Count(operations, "CreateTable", <<c, s, t>>) =
                        Expect(t \in DOMAIN cur /\ t \notin DOMAIN prev)
                  /\ \A k \in DOMAIN operations :
                        operations[k].name = <<c, s, t>> =>
                            /\ operations[k].op = "DropTable" => operations[k].table = prev[t]
                            /\ operations[k].op = "CreateTable" => operations[k].table = cur[t]

\* C8 witness: a run that entered all three levels has returned Ok with a
\* CreateDatabase, a CreateSchema, a DropTable and a CreateTable in its list.
C8_Witness ==
    /\ pc = "done"
    /\ result = "Ok"
    /\ \E c \in CatalogNames, s \in SchemaNames : <<"gen_tables", <<c, s>>>> \in called
    /\ \E a, b, c, d \in DOMAIN operations :
          /\ operations[a].op = "CreateDatabase"
          /\ operations[b].op = "CreateSchema"
          /\ operations[c].op = "DropTable"
          /\ operations[d].op = "CreateTable"

\* C9 is checked under SpecRepeat.

\* C9: a second run on the same two snapshots in the same order ends as the
\* first did and, where they return a list, returns the same operations in
\* the same order.
C9_TwoRunsReturnTheSameList ==
    (pc = "done" /\ RepeatedRun) =>
        /\ result = runs[1].result
        /\ result = "Ok" => operations = runs[1].operations

\* C10 is checked under SpecDbinfo.

\* The name given to add_table on d names a catalog that is no key of
\* d.catalogs, or a schema that is no key of the schemas of the catalog the
\* name resolves to.
MissingQualifier(d, name) ==
    \/ name.catalog # {} /\ name.catalog \cap DOMAIN d.catalogs = {}
    \/ /\ name.schema # {}
       /\ \E c \in (IF name.catalog # {} THEN name.catalog ELSE {d.default_catalog}) :
             /\ c \in DOMAIN d.catalogs
             /\ name.schema \cap DOMAIN d.catalogs[c].schemas = {}

\* C10: every add_table whose name carries a missing catalog or schema
\* qualifier returns NotFound and leaves the whole Dbinfo as it was.
C10_MissingQualifierIsNotFound ==
    [][(calls' = calls + 1 /\ ret'.call = "add_table" /\ MissingQualifier(dbinfo, ret'.name)) =>
          (ret'.status = "NotFound" /\ dbinfo' = dbinfo)]_vars

\* C10 witness: add_table of aux.reporting.events has returned NotFound on a
\* Dbinfo that has the catalog aux without the schema reporting.
C10_Witness ==
    /\ ret.call = "add_table"
    /\ ret.status = "NotFound"
    /\ ret.name = TableName({"aux"}, {"reporting"}, "events")
    /\ "aux" \in DOMAIN dbinfo.catalogs
    /\ "reporting" \notin DOMAIN dbinfo.catalogs["aux"].schemas

\* C11 is checked under SpecDbinfo.

\* The keys <<catalog, schema, table>> a table name stands for in d: a
\* qualifier the name leaves out is the default of d, or of the catalog.
ExpectedPath(d, name) ==
    LET c == IF name.catalog # {} THEN CHOOSE n \in name.catalog : TRUE ELSE d.default_catalog
        s == IF name.schema # {} THEN CHOOSE n \in name.schema : TRUE
             ELSE d.catalogs[c].default_schema
    IN  <<c, s, name.table>>

\* The catalog and the schema of the path p are keys of d.
PathExists(d, p) ==
    /\ p[1] \in DOMAIN d.catalogs
    /\ p[2] \in DOMAIN d.catalogs[p[1]].schemas

\* The table d stores under the path p, if any.
TableAt(d, p) ==
    IF PathExists(d, p) /\ p[3] \in DOMAIN d.catalogs[p[1]].schemas[p[2]].tables
    THEN {d.catalogs[p[1]].schemas[p[2]].tables[p[3]]}
    ELSE {}

\* The paths of all tables d stores.
AllPaths(d) ==
    UNION {UNION {{<<c, s, t>> : t \in DOMAIN d.catalogs[c].schemas[s].tables} :
                     s \in DOMAIN d.catalogs[c].schemas} :
              c \in DOMAIN d.catalogs}

\* A segment of the name is absent from d: a qualifier that is no key, or a
\* table that is no key of the schema the name stands for.
AbsentSegment(d, name) ==
    \/ MissingQualifier(d, name)
    \/ /\ PathExists(d, ExpectedPath(d, name))
       /\ TableAt(d, ExpectedPath(d, name)) = {}

\* The table a CREATE TABLE statement declares under the table name tn.
DeclaredTable(tn, stmt) ==
    Table(tn.table,
          [k \in DOMAIN stmt.columns |->
              Column(stmt.columns[k].name, stmt.columns[k].data_type)],
          stmt.strict)

\* C11, add_table: after add_table(name, t) has returned Ok, get_table(name)
\* returns t, t is stored under the path the name stands for (the defaults
\* for the qualifiers it leaves out) whatever was stored there before, and
\* the table under every other path is what it was.
C11_AddTableStep ==
    (calls' = calls + 1 /\ ret'.call = "add_table" /\ ret'.status = "Ok") =>
        LET p == ExpectedPath(dbinfo, ret'.name)
        IN  /\ get_table(dbinfo', ret'.name) = [status |-> "Ok", table |-> {ret'.table}]
            /\ TableAt(dbinfo', p) = {ret'.table}
            /\ \A q \in AllPaths(dbinfo) \cup AllPaths(dbinfo') :
                   q # p => TableAt(dbinfo', q) = TableAt(dbinfo, q)

\* C11, inspect: after inspect has returned Ok on a text whose last statement
\* is a CREATE TABLE whose name stands for an existing catalog and schema,
\* get_table of that name returns the declared table, its columns in the
\* order of the declaration.
C11_InspectStep ==
    (/\ calls' = calls + 1 /\ ret'.call = "inspect" /\ ret'.status = "Ok"
     /\ ret'.sql # <<>>
     /\ ret'.sql[Len(ret'.sql)].kind = "CreateTable") =>
        LET stmt == ret'.sql[Len(ret'.sql)]
        IN  \A tn \in inspect_table_name(dbinfo.dialect, stmt.name).table_name :
               (~MissingQualifier(dbinfo, tn) /\ PathExists(dbinfo, ExpectedPath(dbinfo, tn))) =>
                   get_table(dbinfo', tn) = [status |-> "Ok", table |-> {DeclaredTable(tn, stmt)}]

\* C11, get_table: get_table of a name with an absent segment returns
\* NotFound and no table.
C11_GetTableStep ==
    (/\ calls' = calls + 1 /\ ret'.call = "get_table"
     /\ AbsentSegment(dbinfo, ret'.name)) =>
        (ret'.status = "NotFound" /\ ret'.table = {})

\* C11: a table added under a name, by add_table or by inspecting its CREATE
\* TABLE, is the table get_table returns under that name, columns in
\* declaration order; it replaces the table stored under the same path and
\* leaves every other table alone; get_table of a name with an absent segment
\* returns NotFound.
C11_AddedTableIsTheTableFound ==
    [][C11_AddTableStep /\ C11_InspectStep /\ C11_GetTableStep]_vars

\* C11 witness: add_table of the unqualified name events has returned Ok with
\* a table of one column, which is now in the default schema of the default
\* catalog, while aux.reporting holds another table events.
C11_Witness ==
    /\ ret.call = "add_table"
    /\ ret.status = "Ok"
    /\ ret.name = TableName({}, {}, "events")
    /\ Len(ret.table.columns) = 1
    /\ TableAt(dbinfo, <<"db", dbinfo.catalogs["db"].default_schema, "events">>) = {ret.table}
    /\ TableAt(dbinfo, <<"aux", "reporting", "events">>) = {Table("events", <<>>, FALSE)}

\* C12 is checked under SpecNames.

\* C12: inspect_table_name answers every object name under every dialect: one
\* part is the table alone; two parts are schema and table under PostgreSql,
\* catalog and table under MySql, invalid under SQLite; three parts are
\* catalog, schema and table under PostgreSql, invalid under MySql and SQLite;
\* no part or more than three parts are invalid.
C12_TableNameByPartsAndDialect ==
    ret.call = "inspect_table_name" =>
        LET n == ret.name
            dl == dbinfo.dialect
            Valid == IF Len(n) = 1 THEN TRUE
                     ELSE IF Len(n) = 2 THEN dl \in {"PostgreSql", "MySql"}
                     ELSE IF Len(n) = 3 THEN dl = "PostgreSql"
                     ELSE FALSE
        IN  /\ ret.status = (IF Valid THEN "Ok" ELSE "InvalidName")
            /\ ~Valid => ret.table_name = {}
            /\ Valid => \E tn \in ret.table_name :
                  /\ ret.table_name = {tn}
                  /\ tn.table = n[Len(n)]
                  /\ tn.schema = (IF Len(n) = 3 \/ (Len(n) = 2 /\ dl = "PostgreSql")
                                  THEN {n[Len(n) - 1]} ELSE {})
                  /\ tn.catalog = (IF Len(n) = 3 THEN {n[1]}
                                   ELSE IF Len(n) = 2 /\ dl = "MySql" THEN {n[1]} ELSE {})

\* C12 witness: under MySql the two parts db.events have been read as the
\* catalog db and the table events, without schema.
C12_Witness ==
    /\ ret.call = "inspect_table_name"
    /\ dbinfo.dialect = "MySql"
    /\ ret.name = <<"db", "events">>
    /\ ret.status = "Ok"
    /\ ret.table_name = {TableName({"db"}, {}, "events")}

\* C13 is checked under SpecDbinfo.

\* The error the statement raises when it is inspected on d, if any: the
\* parser's, a refused field, an invalid table name, or a qualifier of the
\* table name that is no key of d.
RaisedError(d, stmt) ==
    IF stmt.kind = "SyntaxError" THEN {"ParserError"}
    ELSE IF stmt.kind # "CreateTable" THEN {}
    ELSE IF stmt.fields \ {"like"} # {} THEN {"Unsupported"}
    ELSE IF inspect_table_name(d.dialect, stmt.name).status # "Ok" THEN {"InvalidName"}
    ELSE IF "like" \in stmt.fields THEN {"Unsupported"}
    ELSE {"NotFound" : tn \in {n \in inspect_table_name(d.dialect, stmt.name).table_name :
                                   MissingQualifier(d, n)}}

\* C13: when the first statement of the text raises an error, inspect returns
\* that error at that statement and adds nothing; so a CREATE TABLE whose
\* name carries a catalog or schema that does not exist makes inspect return
\* NotFound.
C13_ErrorsAreTerminal ==
    [][(/\ calls' = calls + 1 /\ ret'.call = "inspect"
        /\ ret'.sql # <<>>
        /\ RaisedError(dbinfo, ret'.sql[1]) # {}) =>
           (/\ ret'.status \in RaisedError(dbinfo, ret'.sql[1])
            /\ ret'.loc = 1
            /\ dbinfo' = dbinfo)]_vars

\* C14 is checked under SpecDbinfo.

\* The statement is a construct the catalog model does not hold: a CREATE
\* TABLE with a refused field set, or a statement that is no CREATE TABLE.
UnsupportedConstruct(stmt) ==
    IF stmt.kind = "CreateTable" THEN stmt.fields # {}
    ELSE stmt.kind # "SyntaxError"

\* C14: when the first statement of the text is an unsupported construct,
\* inspect returns an error located at that statement and the Dbinfo is what
\* it was.
C14_UnsupportedIsAnError ==
    [][(/\ calls' = calls + 1 /\ ret'.call = "inspect"
        /\ ret'.sql # <<>>
        /\ UnsupportedConstruct(ret'.sql[1])) =>
           (/\ ret'.status \in {"Unsupported", "InvalidName"}
            /\ ret'.loc = 1
            /\ dbinfo' = dbinfo)]_vars

\* C15 is checked under SpecDbinfo.

\* The default schema of the catalog c is one of its schemas.
Conforming(c) == c.default_schema \in DOMAIN c.schemas

\* The default catalog of d is one of its catalogs, and every catalog of d is
\* conforming.
DefaultsExist(d) ==
    /\ d.default_catalog \in DOMAIN d.catalogs
    /\ \A c \in DOMAIN d.catalogs : Conforming(d.catalogs[c])

\* The last call was add_table or get_table and reached a missing default
\* entry (the unwrap of default_catalog or default_schema).
MissingDefaultReached == ret.call \in {"add_table", "get_table"} /\ ret.status = "Panic"

\* C15 as stated: after any sequence of calls the defaults exist, and no
\* add_table or get_table has reached a missing default entry.
C15_DefaultsAlwaysExist == DefaultsExist(dbinfo) /\ ~MissingDefaultReached

\* C15 as amended: the defaults exist after with_options, and they go on
\* existing, with no add_table or get_table reaching a missing default entry,
\* through every call except an add_catalog of a catalog whose default schema
\* is none of its schemas.
C15_DefaultsExistWhileCatalogsConform ==
    /\ DefaultsExist(dbinfo)
    /\ [][(/\ DefaultsExist(dbinfo)
           /\ ret'.call = "add_catalog" => Conforming(ret'.catalog)) =>
              (DefaultsExist(dbinfo') /\ ~MissingDefaultReached')]_vars

\* C15 witness: add_catalog has replaced the default catalog db by a catalog
\* whose default schema is reporting, and add_table of the unqualified name
\* events has then stored its table in db.reporting.
C15_Witness ==
    /\ ret.call = "add_table"
    /\ ret.status = "Ok"
    /\ ret.name = TableName({}, {}, "events")
    /\ DefaultsExist(dbinfo)
    /\ dbinfo.catalogs["db"].default_schema = "reporting"
    /\ TableAt(dbinfo, <<"db", "reporting", "events">>) = {ret.table}

\* C16 is checked under SpecColumns.

\* The names of the items of the alignment d whose tag is in tags, in order.
RECURSIVE NamesTagged(_, _)
NamesTagged(d, tags) ==
    IF d = <<>> THEN <<>>
    ELSE (IF Head(d).tag \in tags THEN <<Head(d).name>> ELSE <<>>)
         \o NamesTagged(Tail(d), tags)

\* The names of the columns of t after its first k.
NamesFrom(t, k) == [n \in 1..(Len(t.columns) - k) |-> t.columns[k + n].name]

====
